---- MODULE Spec2Model ----
(***************************************************************************)
(* Model of the MLCFG pretty printer (creusot/src/mlcfg/printer.rs).       *)
(*                                                                         *)
(* Text is a sequence of tokens.  A token is a string without blanks, a    *)
(* single blank " " or a newline "\n", so that the number of leading       *)
(* blanks of a line can be counted.  A render is the sequence of writes    *)
(* (`write!`/`writeln!` invocations) the fmt implementation performs on    *)
(* the formatter; the state machine performs them one at a time against a  *)
(* sink that may fail on any write.                                        *)
(***************************************************************************)
EXTENDS Integers, Sequences, FiniteSets, TLC

VARIABLES
    node,       \* the value being rendered: [kind, v]
    env,        \* the FormatEnv the render was started with
    ranks,      \* the precedence table in force (see RankTables)
    ops,        \* the writes the render performs, in order
    pc,         \* index in ops of the next write
    sink,       \* the text the sink holds
    result,     \* "idle", "running", "Ok", "Err" or "Panic"
    attempts,   \* number of writes attempted on the sink
    failedAt,   \* value of attempts at the first failed write, 0 if none
    lineDepth   \* per line begun: number of indent(..) closures around the write

vars == <<node, env, ranks, ops, pc, sink, result, attempts, failedAt, lineDepth>>

----------------------------------------------------------------------------
(* Bounds of the model *)

MaxPath == 2        \* longest scope / module path
MaxArgs == 2        \* most arguments of a function
MaxBlocks == 2      \* most blocks of a function
MaxArms == 2        \* most arms of a switch
MaxIndent == 1      \* largest base indent of the initial environment

----------------------------------------------------------------------------
(* Text helpers *)

SP == " "
NL == "\n"

Min(a, b) == IF a < b THEN a ELSE b

Spaces(n) == [i \in 1..n |-> SP]

\* all sequences over S of length lo..hi
SeqsOf(S, lo, hi) == UNION {[1..n -> S] : n \in lo..hi}

RECURSIVE Flatten(_)
Flatten(ss) == IF ss = <<>> THEN <<>> ELSE Head(ss) \o Flatten(Tail(ss))

\* itertools `format(sep)` / `format_with(sep, ..)`: the elements' texts with
\* sep between consecutive elements.
RECURSIVE Join(_, _)
Join(texts, sep) ==
    IF texts = <<>> THEN <<>>
    ELSE IF Len(texts) = 1 THEN texts[1]
    ELSE texts[1] \o sep \o Join(Tail(texts), sep)

IsPrefix(s, t) == Len(s) <= Len(t) /\ SubSeq(t, 1, Len(s)) = s

----------------------------------------------------------------------------
(* FormatEnv *)

\* `depth` is a ghost field: the number of indent(..) closures entered.
FormatEnv(scope, ind) == [scope |-> scope, indent |-> ind, depth |-> 0]

IndentStep == 2

\* a plausible slip: the step is added twice over
indent_buggy(fe, i) == [fe EXCEPT !.indent = @ + i + i, !.depth = @ + 1]

\* a plausible slip: `self.indent = i` for `self.indent += i`
indent_assign(fe, i) == [fe EXCEPT !.indent = i, !.depth = @ + 1]

\* FormatEnv::indent: the closure runs with a copy whose indent is raised by i.
indent(fe, i) == [fe EXCEPT !.indent = @ + i, !.depth = @ + 1]

\* One write on the formatter.  q: the call site propagates a failure (`?` or
\* the value is the function's result).  d: ghost, fe.depth at the call site.
\* fe: ghost, the environment the call site holds.
W(fe, text) == [t |-> text, fe |-> fe, q |-> TRUE, panic |-> FALSE, d |-> fe.depth]

\* unreachable!(..)
PanicOp == [t |-> <<>>, fe |-> FormatEnv(<<>>, 0), q |-> TRUE, panic |-> TRUE, d |-> 0]

HasPanic(os) == \E i \in 1..Len(os) : os[i].panic

\* the text a sequence of (non-panicking) writes produces
TextOf(os) == Flatten([i \in 1..Len(os) |-> os[i].t])

indent_line(fe) == W(fe, Spaces(fe.indent))

----------------------------------------------------------------------------
(* QName *)

QName(module, name) == [module |-> module, name |-> name]

Singles(s) == [i \in 1..Len(s) |-> <<s[i]>>]

\* scope.iter().zip(module.iter()): stops at the shorter of the two
Zip(s, m) == [i \in 1..Min(Len(s), Len(m)) |-> <<s[i], m[i]>>]

\* skip_while(|(p, m)| p == m)
SkipWhileEq(z) ==
    LET diff == {i \in 1..Len(z) : z[i][1] # z[i][2]}
        k == IF diff = {} THEN Len(z) + 1
             ELSE CHOOSE i \in diff : \A j \in diff : i <= j
    IN SubSeq(z, k, Len(z))

QNameFmt(fe, q) ==
    LET rest == SkipWhileEq(Zip(fe.scope, q.module))
        module_path == Join([i \in 1..Len(rest) |-> <<rest[i][2]>>], <<".">>)
        ident == Join(Singles(q.name), <<"_">>)
    IN IF module_path = <<>> THEN ident ELSE module_path \o <<".">> \o ident

\* Display (not EnvDisplay) of a QName: the name in full
QNameDisplay(q) ==
    LET ident == Join(Singles(q.name), <<"_">>)
    IN IF q.module = <<>> THEN ident
       ELSE Join(Singles(q.module), <<".">>) \o <<".">> \o ident

----------------------------------------------------------------------------
(* Type *)

NoQName == QName(<<>>, <<>>)

Ty(kind, s, q, tys) == [kind |-> kind, s |-> s, q |-> q, tys |-> tys]
TBool == Ty("Bool", "", NoQName, <<>>)
TChar == Ty("Char", "", NoQName, <<>>)
TInt(size) == Ty("Int", size, NoQName, <<>>)
TUint(size) == Ty("Uint", size, NoQName, <<>>)
TFloat(size) == Ty("Float", size, NoQName, <<>>)
MutableBorrow(t) == Ty("MutableBorrow", "", NoQName, <<t>>)
TVar(v) == Ty("TVar", v, NoQName, <<>>)
TConstructor(q) == Ty("TConstructor", "", q, <<>>)
TApp(tyf, args) == Ty("TApp", "", NoQName, <<tyf>> \o args)
TTuple(tys) == Ty("Tuple", "", NoQName, tys)

\* Type::complex: every form but the atomic ones
complex(ty) ==
    ty.kind \notin {"Bool", "Char", "Int", "Uint", "Float", "TVar", "Tuple", "TConstructor"}

SizeName ==
    [I8 |-> "int8", I16 |-> "int16", I32 |-> "int32", I64 |-> "int64",
     I128 |-> "int128", Isize |-> "isize",
     U8 |-> "uint8", U16 |-> "uint16", U32 |-> "uint32", U64 |-> "uint64",
     U128 |-> "uint128", Usize |-> "usize",
     F32 |-> "single", F64 |-> "double"]

RECURSIVE TypeFmt(_, _)
TypeFmt(fe, ty) ==
    LET sub(i) == TypeFmt(fe, ty.tys[i])
        body ==
            CASE ty.kind = "Bool" -> <<"bool">>
              [] ty.kind = "Char" -> <<"char">>
              [] ty.kind \in {"Int", "Uint", "Float"} -> <<SizeName[ty.s]>>
              [] ty.kind = "MutableBorrow" -> <<"borrowed", SP>> \o sub(1)
              [] ty.kind = "TVar" -> <<ty.s>>
              [] ty.kind = "TConstructor" -> QNameFmt(fe, ty.q)
              [] ty.kind = "TApp" ->
                    sub(1) \o <<SP>>
                    \o Join([i \in 1..(Len(ty.tys) - 1) |-> sub(i + 1)], <<SP>>)
              [] ty.kind = "Tuple" ->
                    <<"(">> \o Join([i \in 1..Len(ty.tys) |-> sub(i)], <<SP>>) \o <<")">>
    IN IF complex(ty) THEN <<"(">> \o body \o <<")">> ELSE body

----------------------------------------------------------------------------
(* Pattern, Constant, BlockId *)

Pat(kind, s, pats) == [kind |-> kind, s |-> s, pats |-> pats]
Wildcard == Pat("Wildcard", "", <<>>)
VarP(v) == Pat("VarP", v, <<>>)
TupleP(vs) == Pat("TupleP", "", vs)
ConsP(c, pats) == Pat("ConsP", c, pats)
LitP(lit) == Pat("LitP", lit, <<>>)

RECURSIVE PatternFmt(_)
PatternFmt(p) ==
    LET inner == Join([i \in 1..Len(p.pats) |-> PatternFmt(p.pats[i])], <<",", SP>>)
    IN CASE p.kind = "Wildcard" -> <<"_">>
         [] p.kind = "VarP" -> <<p.s>>
         [] p.kind = "TupleP" -> <<"(">> \o inner \o <<")">>
         [] p.kind = "ConsP" ->
               IF p.pats = <<>> THEN <<p.s>>
               ELSE <<p.s, "(">> \o inner \o <<")">>
         [] p.kind = "LitP" -> <<p.s>>

BlockIdFmt(n) == <<"BB", ToString(n)>>

----------------------------------------------------------------------------
(* Exp *)

Ex(kind, s, q, pat, binders, kids) ==
    [kind |-> kind, s |-> s, q |-> q, pat |-> pat, binders |-> binders, kids |-> kids]
Current(e) == Ex("Current", "", NoQName, Wildcard, <<>>, <<e>>)
Final(e) == Ex("Final", "", NoQName, Wildcard, <<>>, <<e>>)
Let(pattern, arg, body) == Ex("Let", "", NoQName, pattern, <<>>, <<arg, body>>)
Var(v) == Ex("Var", v, NoQName, Wildcard, <<>>, <<>>)
RecUp(record, label, val) == Ex("RecUp", label, NoQName, Wildcard, <<>>, <<record, val>>)
Tuple(vs) == Ex("Tuple", "", NoQName, Wildcard, <<>>, vs)
Constructor(ctor, args) == Ex("Constructor", "", ctor, Wildcard, <<>>, args)
BorrowMut(e) == Ex("BorrowMut", "", NoQName, Wildcard, <<>>, <<e>>)
Const(c) == Ex("Const", c, NoQName, Wildcard, <<>>, <<>>)
BinaryOp(op, l, r) == Ex("BinaryOp", op, NoQName, Wildcard, <<>>, <<l, r>>)
Call(fun, args) == Ex("Call", "", fun, Wildcard, <<>>, args)
Verbatim(verb) == Ex("Verbatim", verb, NoQName, Wildcard, <<>>, <<>>)
Forall(binders, e) == Ex("Forall", "", NoQName, Wildcard, binders, <<e>>)
Exists(binders, e) == Ex("Exists", "", NoQName, Wildcard, binders, <<e>>)
Impl(hyp, e) == Ex("Impl", "", NoQName, Wildcard, <<>>, <<hyp, e>>)

\* FullBinOp: And, Or and Other(op) for the operators of rustc's mir::BinOp
FullBinOps ==
    {"And", "Or", "Add", "Sub", "Mul", "Div", "Rem", "BitXor", "BitAnd", "BitOr",
     "Shl", "Shr", "Eq", "Lt", "Le", "Ne", "Ge", "Gt", "Offset"}

\* The precedence class of an expression.
PrecClass(e) ==
    CASE e.kind \in {"Var", "Const", "Tuple"} -> "Closed"
      [] e.kind = "Constructor" -> IF e.kids = <<>> THEN "Closed" ELSE "App"
      [] e.kind \in {"Call", "BorrowMut"} -> "App"
      [] e.kind \in {"Current", "Final"} -> "Prefix"
      [] e.kind = "BinaryOp" ->
            IF e.s \in {"And", "Or"} THEN e.s
            ELSE IF e.s \in {"Eq", "Ne", "Lt", "Le", "Gt", "Ge"} THEN "Compare"
            ELSE "Arith"
      [] e.kind = "RecUp" -> "Term"
      [] e.kind = "Impl" -> "Impl"
      [] e.kind \in {"Forall", "Exists"} -> "Quant"
      [] e.kind = "Let" -> "Let"
      [] e.kind = "Verbatim" -> "Any"

\* Rank tables.  In TightRanks a lower rank binds more loosely, atoms rank
\* highest; LooseRanks ranks atoms lowest and composite forms higher.
TightRanks ==
    [Any |-> 0, Let |-> 0, Quant |-> 0, Impl |-> 1, Or |-> 2, And |-> 3, Compare |-> 4,
     Arith |-> 5, Prefix |-> 6, App |-> 7, Term |-> 8, Closed |-> 9]

LooseRanks ==
    [Closed |-> 0, Term |-> 1, App |-> 2, Prefix |-> 3, Arith |-> 4, Compare |-> 5,
     And |-> 6, Or |-> 7, Impl |-> 8, Quant |-> 9, Let |-> 9, Any |-> 9]

RankTables == {TightRanks, LooseRanks}

\* Exp::precedence
precedence(e) == ranks[PrecClass(e)]

BinOpSymbols ==
    [And |-> "&&", Or |-> "||", Add |-> "+", Sub |-> "-", Mul |-> "*", Eq |-> "=",
     Ne |-> "<>", Gt |-> ">", Ge |-> ">=", Lt |-> "<", Le |-> "<="]

\* A String computed before anything is written, or the panic that ended
\* its computation.
Str(text) == [t |-> text, panic |-> FALSE]
Panicked == [t |-> <<>>, panic |-> TRUE]

\* a plausible slip: '>' for Ge, and a placeholder instead of the panic
bin_op_to_string_swapped(op) ==
    IF op = "Ge" THEN Str(<<">">>)
    ELSE IF op \in DOMAIN BinOpSymbols THEN Str(<<BinOpSymbols[op]>>)
    ELSE Str(<<"?">>)

bin_op_to_string(op) ==
    IF op \in DOMAIN BinOpSymbols THEN Str(<<BinOpSymbols[op]>>) ELSE Panicked

RECURSIVE ExpFmt(_, _)

\* a plausible slip: <= for <
parens_le(fe, e, i) ==
    LET os == ExpFmt(fe, i)
    IN IF HasPanic(os) THEN Panicked
       ELSE IF precedence(i) <= precedence(e)
            THEN Str(<<"(">> \o TextOf(os) \o <<")">>)
            ELSE Str(TextOf(os))

\* parens!(fe, e, i): format! into a String, wrapped when i ranks below e
parens(fe, e, i) ==
    LET os == ExpFmt(fe, i)
    IN IF HasPanic(os) THEN Panicked
       ELSE IF precedence(i) < precedence(e)
            THEN Str(<<"(">> \o TextOf(os) \o <<")">>)
            ELSE Str(TextOf(os))

BindersFmt(fe, binders) ==
    [i \in 1..Len(binders) |->
        W(fe, <<"(", binders[i][1], SP, ":", SP>> \o TypeFmt(fe, binders[i][2]) \o <<")", SP>>)]

ExpFmt(fe, e) ==
    LET kid(i) == e.kids[i]
        n == Len(e.kids)
        P(i) == parens(fe, e, kid(i))
        \* elements rendered one after the other with ", " between them
        listed == Flatten([i \in 1..n |->
                    (IF i = 1 THEN <<>> ELSE <<W(fe, <<",", SP>>)>>) \o ExpFmt(fe, kid(i))])
        sym == bin_op_to_string(e.s)
    IN CASE e.kind = "Current" -> <<W(fe, <<SP, "*", SP>>)>> \o ExpFmt(fe, kid(1))
         [] e.kind = "Final" -> <<W(fe, <<SP, "^", SP>>)>> \o ExpFmt(fe, kid(1))
         [] e.kind = "Let" ->
               IF P(1).panic \/ P(2).panic THEN <<PanicOp>>
               ELSE <<W(fe, <<"let", SP>> \o PatternFmt(e.pat) \o <<SP, "=", SP>> \o P(1).t
                            \o <<SP, "in", SP>> \o P(2).t)>>
         [] e.kind \in {"Var", "Const", "Verbatim"} -> <<W(fe, <<e.s>>)>>
         [] e.kind = "RecUp" ->
               IF P(1).panic \/ P(2).panic THEN <<PanicOp>>
               ELSE <<W(fe, <<"{", SP>> \o P(1).t \o <<SP, "with", SP, e.s, SP, "=", SP>>
                            \o P(2).t \o <<SP, "}">>)>>
         [] e.kind = "Tuple" -> <<W(fe, <<"(">>)>> \o listed \o <<W(fe, <<")">>)>>
         [] e.kind = "Constructor" ->
               IF e.kids = <<>> THEN <<W(fe, QNameFmt(fe, e.q))>>
               ELSE <<W(fe, QNameDisplay(e.q) \o <<"(">>)>> \o listed \o <<W(fe, <<")">>)>>
         [] e.kind = "BorrowMut" ->
               IF P(1).panic THEN <<PanicOp>>
               ELSE <<W(fe, <<"borrow_mut", SP>> \o P(1).t)>>
         [] e.kind = "BinaryOp" /\ e.s = "Div" ->
               IF P(1).panic \/ P(2).panic THEN <<PanicOp>>
               ELSE <<W(fe, <<"div", SP>> \o P(1).t \o <<SP>> \o P(2).t)>>
         [] e.kind = "BinaryOp" /\ e.s # "Div" ->
               IF P(1).panic \/ sym.panic \/ P(2).panic THEN <<PanicOp>>
               ELSE <<W(fe, P(1).t \o <<SP>> \o sym.t \o <<SP>> \o P(2).t)>>
         [] e.kind = "Call" ->
               \* the arguments are formatted lazily, one after the other
               <<W(fe, QNameDisplay(e.q) \o <<SP>>)>>
               \o [i \in 1..n |->
                     IF P(i).panic THEN PanicOp
                     ELSE W(fe, (IF i = 1 THEN <<>> ELSE <<SP>>) \o P(i).t)]
         [] e.kind \in {"Forall", "Exists"} ->
               <<W(fe, <<(IF e.kind = "Forall" THEN "forall" ELSE "exists"), SP>>)>>
               \o BindersFmt(fe, e.binders)
               \o <<W(fe, <<".", SP>>)>> \o ExpFmt(fe, kid(1))
         [] e.kind = "Impl" ->
               IF P(1).panic \/ P(2).panic THEN <<PanicOp>>
               ELSE <<W(fe, P(1).t \o <<SP, "->", SP>> \o P(2).t)>>

----------------------------------------------------------------------------
(* Statement, Terminator, Block *)

Assign(lhs, rhs) == [kind |-> "Assign", s |-> lhs, e |-> rhs]
Freeze(loc) == [kind |-> "Freeze", s |-> loc, e |-> Var(loc)]
Invariant(nm, e) == [kind |-> "Invariant", s |-> nm, e |-> e]

StatementFmt(fe, st) ==
    <<indent_line(fe)>>
    \o CASE st.kind = "Assign" -> <<W(fe, <<st.s, SP, "<-", SP>>)>> \o ExpFmt(fe, st.e)
         [] st.kind = "Freeze" ->
               <<W(fe, <<"assume", SP, "{", SP, "^", SP, st.s, SP, "=", SP, "*", SP, st.s,
                         SP, "}">>)>>
         [] st.kind = "Invariant" ->
               <<W(fe, <<"invariant", SP, st.s, SP, "{", SP>>)>> \o ExpFmt(fe, st.e)
               \o <<W(fe, <<SP, "}">>)>>

Term(kind, tgt, discr, brs) == [kind |-> kind, tgt |-> tgt, discr |-> discr, brs |-> brs]
Goto(tgt) == Term("Goto", tgt, Var("_"), <<>>)
Absurd == Term("Absurd", 0, Var("_"), <<>>)
Return == Term("Return", 0, Var("_"), <<>>)
Switch(discr, brs) == Term("Switch", 0, discr, brs)

\* a plausible slip: an arm equal to the one before it is left out
SwitchArms_dedup(fe, brs) ==
    Flatten([i \in 1..Len(brs) |->
        IF i > 1 /\ brs[i] = brs[i - 1] THEN <<>>
        ELSE <<indent_line(fe),
               W(fe, <<"|", SP>> \o PatternFmt(brs[i][1]) \o <<SP, "->", SP, "goto", SP>>
                     \o BlockIdFmt(brs[i][2]) \o <<NL>>)>>])
    \o <<indent_line(fe), W(fe, <<"end", NL>>)>>

\* the arms and the closing `end` of a switch, in the closure given to indent
SwitchArms(fe, brs) ==
    Flatten([i \in 1..Len(brs) |->
        <<indent_line(fe),
          W(fe, <<"|", SP>> \o PatternFmt(brs[i][1]) \o <<SP, "->", SP, "goto", SP>>
                \o BlockIdFmt(brs[i][2]) \o <<NL>>)>>])
    \o <<indent_line(fe), W(fe, <<"end", NL>>)>>

TerminatorFmt(fe, tm) ==
    <<indent_line(fe)>>
    \o CASE tm.kind = "Goto" -> <<W(fe, <<"goto", SP>> \o BlockIdFmt(tm.tgt) \o <<NL>>)>>
         [] tm.kind = "Absurd" -> <<W(fe, <<"absurd", NL>>)>>
         [] tm.kind = "Return" -> <<W(fe, <<"_0", NL>>)>>
         [] tm.kind = "Switch" ->
               <<W(fe, <<"switch", SP, "(">>)>> \o ExpFmt(fe, tm.discr) \o <<W(fe, <<")", NL>>)>>
               \o SwitchArms(indent(fe, IndentStep), tm.brs)

Block(label, statements, terminator) ==
    [label |-> label, statements |-> statements, terminator |-> terminator]

\* a plausible slip: the result of writing a statement is dropped (no `?`)
BlockBody_swallow(fe, b) ==
    Flatten([i \in 1..Len(b.statements) |->
        LET os == StatementFmt(fe, b.statements[i]) \o <<W(fe, <<";", NL>>)>>
        IN [j \in 1..Len(os) |-> [os[j] EXCEPT !.q = FALSE]]])
    \o TerminatorFmt(fe, b.terminator)

\* the closure given to indent in Block's fmt
BlockBody(fe, b) ==
    Flatten([i \in 1..Len(b.statements) |->
        StatementFmt(fe, b.statements[i]) \o <<W(fe, <<";", NL>>)>>])
    \o TerminatorFmt(fe, b.terminator)

BlockFmt(fe, b) ==
    <<indent_line(fe), W(fe, BlockIdFmt(b.label) \o <<SP, "{", NL>>)>>
    \o BlockBody(indent(fe, IndentStep), b)
    \o <<indent_line(fe), W(fe, <<"}", NL>>)>>

----------------------------------------------------------------------------
(* Function *)

Function(name, args, retty, preconds, postconds, locals, blocks) ==
    [name |-> name, args |-> args, retty |-> retty, preconds |-> preconds,
     postconds |-> postconds, vars |-> locals, blocks |-> blocks]

\* a plausible slip: no '()' for an empty argument list
FunctionHeader_noUnit(fe, fn) ==
    <<indent_line(fe), W(fe, <<"let", SP, "cfg", SP>> \o QNameFmt(fe, fn.name) \o <<SP>>)>>
    \o [i \in 1..Len(fn.args) |->
          W(fe, <<"(", "o_", fn.args[i][1], SP, ":", SP>> \o TypeFmt(fe, fn.args[i][2])
                \o <<")">>)]
    \o <<W(fe, <<SP, ":", SP>> \o TypeFmt(fe, fn.retty) \o <<NL>>)>>

\* printer.rs 69-80
FunctionHeader(fe, fn) ==
    <<indent_line(fe), W(fe, <<"let", SP, "cfg", SP>> \o QNameFmt(fe, fn.name) \o <<SP>>)>>
    \o (IF fn.args = <<>> THEN <<W(fe, <<"(", ")">>)>> ELSE <<>>)
    \o [i \in 1..Len(fn.args) |->
          W(fe, <<"(", "o_", fn.args[i][1], SP, ":", SP>> \o TypeFmt(fe, fn.args[i][2])
                \o <<")">>)]
    \o <<W(fe, <<SP, ":", SP>> \o TypeFmt(fe, fn.retty) \o <<NL>>)>>

\* printer.rs 82-96, the closure given to indent
FunctionContract(fe, fn) ==
    Flatten([i \in 1..Len(fn.preconds) |->
        <<indent_line(fe),
          W(fe, <<"requires", SP, "{", SP, fn.preconds[i], SP, "}", NL>>)>>])
    \o Flatten([i \in 1..Len(fn.postconds) |->
        <<indent_line(fe),
          W(fe, <<"ensures", SP, "{", SP, fn.postconds[i], SP, "}", NL>>)>>])
    \o <<indent_line(fe), W(fe, <<"=", NL>>)>>

VarDecl(fe, var, ty) ==
    <<indent_line(fe), W(fe, <<"var", SP, var, SP, ":", SP>> \o TypeFmt(fe, ty) \o <<";", NL>>)>>

\* printer.rs 98-111
FunctionDecls(fe, fn) ==
    VarDecl(fe, "_0", fn.retty)
    \o Flatten([i \in 1..Len(fn.args) |-> VarDecl(fe, fn.args[i][1], fn.args[i][2])])
    \o Flatten([i \in 1..Len(fn.vars) |-> VarDecl(fe, fn.vars[i][1], fn.vars[i][2])])

\* a plausible slip: the jump to the entry block comes before the assignments
PrologueBody_gotoFirst(fe, fn) ==
    <<indent_line(fe), W(fe, <<"goto", SP, "BB", "0", ";", NL>>)>>
    \o Flatten([i \in 1..Len(fn.args) |->
        <<indent_line(fe),
          W(fe, <<fn.args[i][1], SP, "<-", SP, "o_", fn.args[i][1], ";", NL>>)>>])

\* printer.rs 116-122, the closure given to indent
PrologueBody(fe, fn) ==
    Flatten([i \in 1..Len(fn.args) |->
        <<indent_line(fe),
          W(fe, <<fn.args[i][1], SP, "<-", SP, "o_", fn.args[i][1], ";", NL>>)>>])
    \o <<indent_line(fe), W(fe, <<"goto", SP, "BB", "0", ";", NL>>)>>

\* printer.rs 113-126
FunctionPrologue(fe, fn) ==
    <<indent_line(fe), W(fe, <<"{", NL>>)>>
    \o PrologueBody(indent(fe, IndentStep), fn)
    \o <<indent_line(fe), W(fe, <<"}", NL>>)>>

\* a plausible slip: the blocks are emitted last to first
FunctionBlocks_reversed(fe, fn) ==
    Flatten([i \in 1..Len(fn.blocks) |-> BlockFmt(fe, fn.blocks[Len(fn.blocks) + 1 - i])])

\* printer.rs 128-130
FunctionBlocks(fe, fn) ==
    Flatten([i \in 1..Len(fn.blocks) |-> BlockFmt(fe, fn.blocks[i])])

FunctionFmt(fe, fn) ==
    FunctionHeader(fe, fn)
    \o FunctionContract(indent(fe, IndentStep), fn)
    \o FunctionDecls(fe, fn)
    \o FunctionPrologue(fe, fn)
    \o FunctionBlocks(fe, fn)

----------------------------------------------------------------------------
(* TyDecl *)

TyDecl(ty_name, ty_params, ty_constructors) ==
    [ty_name |-> ty_name, ty_params |-> ty_params, ty_constructors |-> ty_constructors]

\* the closure given to indent in TyDecl's fmt
TyDeclBody(fe, td) ==
    Flatten([i \in 1..Len(td.ty_constructors) |->
        LET cons == td.ty_constructors[i][1]
            args == td.ty_constructors[i][2]
        IN <<indent_line(fe),
             W(fe, <<SP, SP, "|", SP, cons>>
                   \o (IF args = <<>> THEN <<>>
                       ELSE <<"(">>
                            \o Join([j \in 1..Len(args) |-> TypeFmt(fe, args[j])], <<",", SP>>)
                            \o <<")">>)
                   \o <<NL>>)>>])

TyDeclFmt(fe, td) ==
    <<indent_line(fe),
      W(fe, <<"type", SP>> \o QNameFmt(fe, td.ty_name) \o <<SP>>
            \o Join(Singles(td.ty_params), <<SP>>) \o <<SP, "=", NL>>)>>
    \o TyDeclBody(indent(fe, IndentStep), td)

----------------------------------------------------------------------------
(* The values rendered *)

Segs == {"a", "b"}
Paths == SeqsOf(Segs, 0, MaxPath)
QNamePool == {QName(m, n) : m \in Paths, n \in {<<"f">>, <<"f", "g">>}}

qC == QName(<<"a">>, <<"C">>)
qF == QName(<<"a", "m">>, <<"f">>)
qT == QName(<<"a">>, <<"T">>)

Atoms == {Var("a"), Const("5")}

KidOps == {"And", "Or", "Add", "Eq", "Div", "Rem"}

Kids ==
    Atoms
    \cup {Verbatim("v"), Tuple(<<Var("a"), Var("b")>>), Constructor(qC, <<>>),
          Constructor(qC, <<Var("a")>>), Current(Var("a")), Final(Var("a")),
          Let(VarP("x"), Var("a"), Var("b")), RecUp(Var("a"), "l", Var("b")),
          BorrowMut(Var("a")), Call(qF, <<Var("a")>>),
          Forall(<<<<"x", TBool>>>>, Var("a")), Exists(<<<<"x", TBool>>>>, Var("a")),
          Impl(Var("a"), Var("b"))}
    \cup {BinaryOp(op, Var("a"), Var("b")) : op \in KidOps}

\* operand pairs: a kid on one side, an atom on the other
KidPairs == (Kids \X Atoms) \cup (Atoms \X Kids)
KidLists == {<<k>> : k \in Kids} \cup {<<p[1], p[2]>> : p \in KidPairs}

ExpPool ==
    Kids
    \cup {Current(k) : k \in Kids} \cup {Final(k) : k \in Kids}
    \cup {BorrowMut(k) : k \in Kids}
    \cup {Forall(<<<<"x", TBool>>, <<"y", TUint("U32")>>>>, k) : k \in Kids}
    \cup {Exists(<<>>, k) : k \in Kids}
    \cup {Let(ConsP("Some", <<VarP("x")>>), p[1], p[2]) : p \in KidPairs}
    \cup {RecUp(p[1], "l", p[2]) : p \in KidPairs}
    \cup {Impl(p[1], p[2]) : p \in KidPairs}
    \cup {BinaryOp(op, p[1], p[2]) : op \in FullBinOps, p \in KidPairs}
    \cup {Tuple(l) : l \in KidLists} \cup {Tuple(<<>>)}
    \cup {Constructor(qC, l) : l \in KidLists}
    \cup {Call(qF, l) : l \in KidLists}

ArmPool == {<<ConsP("True", <<>>), 1>>, <<ConsP("False", <<>>), 2>>, <<Wildcard, 1>>}
ArmLists == SeqsOf(ArmPool, 0, MaxArms)

TerminatorPool ==
    {Goto(1), Absurd, Return}
    \cup {Switch(Var("flag"), brs) : brs \in ArmLists}
    \cup {Switch(BinaryOp("Eq", Var("a"), Const("5")), <<<<LitP("0"), 3>>>>)}

StatementPool ==
    {Assign("z", BinaryOp("Add", Var("x"), Var("y"))), Freeze("x"),
     Invariant("inv", Current(Var("x"))), Assign("z", BinaryOp("Rem", Var("x"), Var("y")))}

B0 == Block(0, <<Assign("z", BinaryOp("Add", Var("x"), Var("y")))>>, Return)
B1 == Block(1, <<>>, Goto(0))
B2 == Block(2, <<Freeze("x"), Invariant("inv", Var("b"))>>,
            Switch(Var("flag"), <<<<ConsP("True", <<>>), 1>>, <<ConsP("False", <<>>), 2>>>>))
B3 == Block(3, <<Assign("z", BinaryOp("Rem", Var("x"), Var("y")))>>, Absurd)
BlockPool == {B0, B1, B2, B3}

StandaloneBlocks ==
    BlockPool \cup {Block(2, <<Freeze("x")>>, tm) : tm \in TerminatorPool}

\* block identifiers are unique within a function
BlockLists ==
    {bs \in SeqsOf(BlockPool, 0, MaxBlocks) :
        \A i, j \in 1..Len(bs) : i # j => bs[i].label # bs[j].label}

ArgNames == <<"x", "y", "u", "v">>
ArgTypes == <<TUint("U32"), MutableBorrow(TBool), TConstructor(qT), TTuple(<<TBool, TChar>>)>>
Args(n) == [i \in 1..n |-> <<ArgNames[i], ArgTypes[i]>>]

FunctionPool ==
    {Function(QName(<<>>, <<"add">>), Args(n), TUint("U32"), <<>>, <<>>,
              <<<<"z", TUint("U32")>>>>, bs) : n \in 0..MaxArgs, bs \in BlockLists}
    \cup
    {Function(QName(<<"a", "m">>, <<"f", "g">>), Args(n), TApp(TConstructor(qT), <<TVar("t")>>),
              <<"p1">>, <<"q1", "q2">>, <<>>, bs) : n \in 0..MaxArgs, bs \in BlockLists}

TyDeclPool ==
    {TyDecl(qT, ps, cs) :
        ps \in {<<>>, <<"t", "u">>},
        cs \in {<<>>, <<<<"Nil", <<>>>>>>,
                <<<<"Nil", <<>>>>, <<"Cons", <<TVar("t"), MutableBorrow(TConstructor(qT))>>>>>>}}

----------------------------------------------------------------------------
(* The render as a state machine *)

Init ==
    /\ node = [kind |-> "None", v |-> <<>>]
    /\ env = FormatEnv(<<>>, 0)
    /\ ranks \in RankTables
    /\ ops = <<>>
    /\ pc = 1
    /\ sink = <<>>
    /\ result = "idle"
    /\ attempts = 0
    /\ failedAt = 0
    /\ lineDepth = <<>>

\* fe.to(v) is handed to a formatter: Print::fmt calls v.fmt(fe, f)
Start(kind, v, fe, os) ==
    /\ result = "idle"
    /\ node' = [kind |-> kind, v |-> v]
    /\ env' = fe
    /\ ops' = os
    /\ result' = "running"
    /\ UNCHANGED <<ranks, pc, sink, attempts, failedAt, lineDepth>>

StartQName ==
    \E scope \in Paths, q \in QNamePool :
        LET fe == FormatEnv(scope, 0) IN Start("QName", q, fe, <<W(fe, QNameFmt(fe, q))>>)

StartExp ==
    \E e \in ExpPool :
        LET fe == FormatEnv(<<"a">>, 0) IN Start("Exp", e, fe, ExpFmt(fe, e))

StartStatement ==
    \E st \in StatementPool, i \in 0..MaxIndent :
        LET fe == FormatEnv(<<"a">>, i) IN Start("Statement", st, fe, StatementFmt(fe, st))

StartTerminator ==
    \E tm \in TerminatorPool, i \in 0..MaxIndent :
        LET fe == FormatEnv(<<"a">>, i) IN Start("Terminator", tm, fe, TerminatorFmt(fe, tm))

StartBlock ==
    \E b \in StandaloneBlocks, i \in 0..MaxIndent :
        LET fe == FormatEnv(<<"a">>, i) IN Start("Block", b, fe, BlockFmt(fe, b))

StartFunction ==
    \E fn \in FunctionPool, i \in 0..MaxIndent :
        LET fe == FormatEnv(<<"a">>, i) IN Start("Function", fn, fe, FunctionFmt(fe, fn))

StartTyDecl ==
    \E td \in TyDeclPool, i \in 0..MaxIndent :
        LET fe == FormatEnv(<<"a">>, i) IN Start("TyDecl", td, fe, TyDeclFmt(fe, td))

AtLineStart == sink = <<>> \/ sink[Len(sink)] = NL

\* the ghost record of the nesting depth of each line begun
Begun(text, d) ==
    IF AtLineStart /\ text # <<>> THEN Append(lineDepth, d) ELSE lineDepth

\* a write the sink accepts
Write ==
    /\ result = "running"
    /\ pc <= Len(ops)
    /\ ~ops[pc].panic
    /\ sink' = sink \o ops[pc].t
    /\ lineDepth' = Begun(ops[pc].t, ops[pc].d)
    /\ pc' = pc + 1
    /\ attempts' = attempts + 1
    /\ UNCHANGED <<node, env, ranks, ops, result, failedAt>>

\* What a failing write may leave in the sink: none of the text, or all of it
\* but the last token.
Taken(text) == {k \in 0..Len(text) : k = 0 \/ k = Len(text) - 1}

\* a write the sink fails; the error is returned through every `?` up to the
\* caller of the render
WriteFail ==
    /\ result = "running"
    /\ pc <= Len(ops)
    /\ ~ops[pc].panic
    /\ \E k \in Taken(ops[pc].t) :
        /\ sink' = sink \o SubSeq(ops[pc].t, 1, k)
        /\ lineDepth' = Begun(SubSeq(ops[pc].t, 1, k), ops[pc].d)
    /\ attempts' = attempts + 1
    /\ failedAt' = IF failedAt = 0 THEN attempts + 1 ELSE failedAt
    /\ IF ops[pc].q
       THEN result' = "Err" /\ pc' = pc
       ELSE result' = result /\ pc' = pc + 1
    /\ UNCHANGED <<node, env, ranks, ops>>

\* unreachable!(..) is reached
Panic ==
    /\ result = "running"
    /\ pc <= Len(ops)
    /\ ops[pc].panic
    /\ result' = "Panic"
    /\ UNCHANGED <<node, env, ranks, ops, pc, sink, attempts, failedAt, lineDepth>>

\* the fmt call returns Ok(())
Finish ==
    /\ result = "running"
    /\ pc > Len(ops)
    /\ result' = "Ok"
    /\ UNCHANGED <<node, env, ranks, ops, pc, sink, attempts, failedAt, lineDepth>>

Next ==
    \/ StartQName
    \/ StartExp
    \/ StartStatement
    \/ StartTerminator
    \/ StartBlock
    \/ StartFunction
    \/ StartTyDecl
    \/ Write
    \/ WriteFail
    \/ Panic
    \/ Finish

Spec == Init /\ [][Next]_vars

\* rendering a qualified name
NextQName == StartQName \/ Write \/ WriteFail \/ Finish
SpecQName == Init /\ [][NextQName]_vars

\* rendering an expression
NextExp == StartExp \/ Write \/ WriteFail \/ Panic \/ Finish
SpecExp == Init /\ [][NextExp]_vars

\* rendering the control-flow graph: statements, terminators, blocks,
\* functions, type declarations
NextCfg ==
    \/ StartStatement
    \/ StartTerminator
    \/ StartBlock
    \/ StartFunction
    \/ StartTyDecl
    \/ Write
    \/ WriteFail
    \/ Panic
    \/ Finish
SpecCfg == Init /\ [][NextCfg]_vars

----------------------------------------------------------------------------
(* Reading the rendered text *)

Wrapped(text) == <<"(">> \o text \o <<")">>

\* the complete lines of a text, without their newlines
RECURSIVE Lines(_)
Lines(text) ==
    LET nls == {i \in 1..Len(text) : text[i] = NL}
    IN IF nls = {} THEN <<>>
       ELSE LET k == CHOOSE i \in nls : \A j \in nls : i <= j
            IN <<SubSeq(text, 1, k - 1)>> \o Lines(SubSeq(text, k + 1, Len(text)))

\* the last line of a text: what follows the last newline before its end
LastLine(text) ==
    LET nls == {i \in 1..(Len(text) - 1) : text[i] = NL}
        k == IF nls = {} THEN 0 ELSE CHOOSE i \in nls : \A j \in nls : j <= i
        e == IF text[Len(text)] = NL THEN Len(text) - 1 ELSE Len(text)
    IN SubSeq(text, k + 1, e)

LeadingSpaces(line) ==
    LET ns == {i \in 1..Len(line) : line[i] # SP}
    IN IF ns = {} THEN Len(line) ELSE (CHOOSE i \in ns : \A j \in ns : i <= j) - 1

Strip(line) == SubSeq(line, LeadingSpaces(line) + 1, Len(line))

Rendered(kind) == node.kind = kind /\ result = "Ok"

----------------------------------------------------------------------------
(* Qualified names: C1, C8 *)

Ident(q) == Join(Singles(q.name), <<"_">>)

\* length of the longest position-wise common prefix of scope and module
CommonPrefix(scope, module) ==
    LET ks == {k \in 0..Min(Len(scope), Len(module)) :
                  \A i \in 1..k : scope[i] = module[i]}
    IN CHOOSE k \in ks : \A j \in ks : j <= k

\* the name with the common prefix removed and every other segment kept
Shortened(scope, q) ==
    LET rest == SubSeq(q.module, CommonPrefix(scope, q.module) + 1, Len(q.module))
    IN IF rest = <<>> THEN Ident(q)
       ELSE Join(Singles(rest), <<".">>) \o <<".">> \o Ident(q)

\* C1: a qualified name rendered under a scope is its module path without the
\* longest position-wise common prefix of scope and module (every remaining
\* segment kept, also those beyond the length of the scope), a '.', and the
\* identifier segments joined with '_'; the identifier alone when no module
\* segment remains.
C1_ShortenedName ==
    Rendered("QName") => sink = Shortened(env.scope, node.v)

\* C8: under an empty scope a name with a non-empty module path is rendered
\* with its full module path, a '.', and the joined identifier.
C8_EmptyScopeFullPath ==
    (Rendered("QName") /\ env.scope = <<>> /\ node.v.module # <<>>)
        => sink = Join(Singles(node.v.module), <<".">>) \o <<".">> \o Ident(node.v)

----------------------------------------------------------------------------
(* Parenthesization: C2 *)

\* the text of an expression rendered on its own
Alone(e) == TextOf(ExpFmt(env, e))

\* the text of e around the given texts of its children
Framed(e, kt) ==
    CASE e.kind = "Current" -> <<SP, "*", SP>> \o kt[1]
      [] e.kind = "Final" -> <<SP, "^", SP>> \o kt[1]
      [] e.kind = "Let" ->
            <<"let", SP>> \o PatternFmt(e.pat) \o <<SP, "=", SP>> \o kt[1]
            \o <<SP, "in", SP>> \o kt[2]
      [] e.kind \in {"Var", "Const", "Verbatim"} -> <<e.s>>
      [] e.kind = "RecUp" ->
            <<"{", SP>> \o kt[1] \o <<SP, "with", SP, e.s, SP, "=", SP>> \o kt[2] \o <<SP, "}">>
      [] e.kind = "Tuple" -> <<"(">> \o Join(kt, <<",", SP>>) \o <<")">>
      [] e.kind = "Constructor" ->
            IF kt = <<>> THEN QNameFmt(env, e.q)
            ELSE QNameDisplay(e.q) \o <<"(">> \o Join(kt, <<",", SP>>) \o <<")">>
      [] e.kind = "BorrowMut" -> <<"borrow_mut", SP>> \o kt[1]
      [] e.kind = "BinaryOp" ->
            IF e.s = "Div" THEN <<"div", SP>> \o kt[1] \o <<SP>> \o kt[2]
            ELSE kt[1] \o <<SP, BinOpSymbols[e.s], SP>> \o kt[2]
      [] e.kind = "Call" -> QNameDisplay(e.q) \o <<SP>> \o Join(kt, <<SP>>)
      [] e.kind \in {"Forall", "Exists"} ->
            <<(IF e.kind = "Forall" THEN "forall" ELSE "exists"), SP>>
            \o TextOf(BindersFmt(env, e.binders)) \o <<".", SP>> \o kt[1]
      [] e.kind = "Impl" -> kt[1] \o <<SP, "->", SP>> \o kt[2]

\* the parents whose children go through parens!
ParensSites == {"Let", "RecUp", "BorrowMut", "BinaryOp", "Call", "Impl"}

Lower(e, i) == precedence(e.kids[i]) < precedence(e)

\* C2 (as amended): a child that is an operand of let, record update,
\* borrow_mut, a binary operation, division, a call or an implication is
\* wrapped in exactly one pair of parentheses if its precedence rank is
\* strictly lower than its parent's and is emitted bare otherwise; the operand
\* of a current/final projection, the arguments of a tuple or constructor and
\* the body of a quantifier are always emitted bare.
C2_ParensAtOperands ==
    Rendered("Exp") =>
        LET e == node.v
        IN sink = Framed(e, [i \in 1..Len(e.kids) |->
                      IF e.kind \in ParensSites /\ Lower(e, i)
                      THEN Wrapped(Alone(e.kids[i])) ELSE Alone(e.kids[i])])

\* C2 (as claimed): every embedded child, whatever its parent, is wrapped in
\* exactly one pair of parentheses if its rank is strictly lower than its
\* parent's and is emitted bare otherwise.
C2_ParensEverywhere ==
    Rendered("Exp") =>
        LET e == node.v
        IN sink = Framed(e, [i \in 1..Len(e.kids) |->
                      IF Lower(e, i) THEN Wrapped(Alone(e.kids[i])) ELSE Alone(e.kids[i])])

\* a binary operation was rendered with one operand wrapped and the other bare
C2_Witness ==
    /\ Rendered("Exp")
    /\ node.v.kind = "BinaryOp"
    /\ Lower(node.v, 1)
    /\ ~Lower(node.v, 2)
    /\ SubSeq(sink, 1, Len(Alone(node.v.kids[1])) + 2) = Wrapped(Alone(node.v.kids[1]))

----------------------------------------------------------------------------
(* Binary operators: C10 *)

InfixSymbols ==
    [And |-> "&&", Or |-> "||", Add |-> "+", Sub |-> "-", Mul |-> "*", Eq |-> "=",
     Ne |-> "<>", Gt |-> ">", Ge |-> ">=", Lt |-> "<", Le |-> "<="]

\* an operand as it may stand in its parent: bare or wrapped
Operand(e) == {Alone(e), Wrapped(Alone(e))}

\* C10: a binary operation with one of the eleven infix operators renders as
\* '<left> <symbol> <right>' with the operator's symbol; division renders as
\* 'div <left> <right>'; with any other operator the render never returns (Ok
\* or an error) and writes nothing for the operation: it panics.
C10_BinaryOperators ==
    (node.kind = "Exp" /\ node.v.kind = "BinaryOp") =>
        LET op == node.v.s
            l == node.v.kids[1]
            r == node.v.kids[2]
        IN IF op \in DOMAIN InfixSymbols
           THEN result = "Ok" =>
                    \E lt \in Operand(l), rt \in Operand(r) :
                        sink = lt \o <<SP, InfixSymbols[op], SP>> \o rt
           ELSE IF op = "Div"
           THEN result = "Ok" =>
                    \E lt \in Operand(l), rt \in Operand(r) :
                        sink = <<"div", SP>> \o lt \o <<SP>> \o rt
           ELSE result \in {"running", "Panic"} /\ sink = <<>> /\ attempts = 0

\* the render of a binary operation with an unsupported operator has panicked
C10_Witness ==
    /\ node.kind = "Exp"
    /\ node.v.kind = "BinaryOp"
    /\ node.v.s \notin DOMAIN InfixSymbols \cup {"Div"}
    /\ ~HasPanic(ExpFmt(env, node.v.kids[1]))
    /\ ~HasPanic(ExpFmt(env, node.v.kids[2]))
    /\ result = "Panic"

----------------------------------------------------------------------------
(* Indentation: C3 *)

CfgKinds == {"Statement", "Terminator", "Block", "Function", "TyDecl"}

\* a line has just been completed, or the render has returned
LineEnded == sink # <<>> /\ (sink[Len(sink)] = NL \/ result = "Ok")

\* a constructor line of a type declaration
CtorLine(line) == node.kind = "TyDecl" /\ Strip(line) # <<>> /\ Head(Strip(line)) = "|"

\* C3 (as amended): every line emitted while rendering a Function, Block,
\* Statement, Terminator or TypeDeclaration starts with the base indent of the
\* initial environment plus 2 blanks for each indent(2, ..) closure around the
\* write, so that a line after a nested context has the indent in force before
\* it; the constructor lines of a TypeDeclaration carry 2 more blanks, those
\* of the literal "  | ".
C3_LineIndent ==
    (node.kind \in CfgKinds /\ LineEnded) =>
        LET line == LastLine(sink)
            d == lineDepth[Len(lineDepth)]
        IN LeadingSpaces(line) =
              env.indent + IndentStep * d + (IF CtorLine(line) THEN 2 ELSE 0)

\* C3 (as claimed): the leading blanks of every such line are the base indent
\* plus 2 for each enclosing indent(2, ..) context, and nothing else.
C3_IndentOnly ==
    (node.kind \in CfgKinds /\ LineEnded) =>
        LeadingSpaces(LastLine(sink)) = env.indent + IndentStep * lineDepth[Len(lineDepth)]

\* a function was rendered whose lines went two contexts deep (the arms of a
\* switch) and came back to the base indent for the closing brace
C3_Witness ==
    /\ Rendered("Function")
    /\ env.indent > 0
    /\ \E i \in 1..Len(lineDepth) : lineDepth[i] = 2
    /\ lineDepth[Len(lineDepth)] = 0
    /\ LastLine(sink) = Spaces(env.indent) \o <<"}">>

----------------------------------------------------------------------------
(* Blocks of a function: C4 *)

IsBlockHead(line) ==
    LET t == Strip(line)
    IN Len(t) = 4 /\ t[1] = "BB" /\ t[3] = SP /\ t[4] = "{"

TerminatorWords == {"goto", "absurd", "_0", "switch"}

EndsWith(line, tok) == line # <<>> /\ line[Len(line)] = tok

\* a line that begins a terminator (a statement line ends with ';')
BeginsTerminator(line) ==
    Strip(line) # <<>> /\ Head(Strip(line)) \in TerminatorWords /\ ~EndsWith(line, ";")

\* a line that continues a switch terminator
ContinuesTerminator(line) == Strip(line) # <<>> /\ Head(Strip(line)) \in {"|", "end"}

\* the indices of the lines satisfying P, in increasing order
RECURSIVE Ascending(_)
Ascending(S) ==
    IF S = {} THEN <<>>
    ELSE LET m == CHOOSE i \in S : \A j \in S : i <= j
         IN <<m>> \o Ascending(S \ {m})

\* C4: the rendered function has as many 'BB<n> {' blocks as the input has
\* blocks, in the input's order, and each block holds its statements and then
\* exactly one terminator, which is the last content before the closing brace.
C4_BlockCompleteness ==
    Rendered("Function") =>
        LET L == Lines(sink)
            bs == node.v.blocks
            heads == Ascending({i \in 1..Len(L) : IsBlockHead(L[i])})
            last(j) == IF j < Len(heads) THEN heads[j + 1] - 1 ELSE Len(L)
        IN /\ Len(heads) = Len(bs)
           /\ \A j \in 1..Len(heads) :
                LET ns == Len(bs[j].statements)
                    body == SubSeq(L, heads[j] + 1, last(j) - 1)
                IN /\ Strip(L[heads[j]])[2] = ToString(bs[j].label)
                   /\ Strip(L[last(j)]) = <<"}">>
                   /\ Len(body) > ns
                   /\ \A i \in 1..ns : EndsWith(body[i], ";")
                   /\ BeginsTerminator(body[ns + 1])
                   /\ \A i \in (ns + 2)..Len(body) : ContinuesTerminator(body[i])
                   /\ Cardinality({i \in 1..Len(body) : BeginsTerminator(body[i])}) = 1

\* a function of two blocks, one with statements and a switch, was rendered
C4_Witness ==
    /\ Rendered("Function")
    /\ Len(node.v.blocks) = 2
    /\ \E j \in 1..2 :
          /\ node.v.blocks[j].statements # <<>>
          /\ node.v.blocks[j].terminator.kind = "Switch"
    /\ Cardinality({i \in 1..Len(Lines(sink)) : IsBlockHead(Lines(sink)[i])}) = 2

----------------------------------------------------------------------------
(* Function header and body layout: C5, C6 *)

ParamGroup(arg) ==
    <<"(", "o_", arg[1], SP, ":", SP>> \o TypeFmt(env, arg[2]) \o <<")">>

HeaderLine(params) ==
    Spaces(env.indent) \o <<"let", SP, "cfg", SP>> \o QNameFmt(env, node.v.name) \o <<SP>>
    \o params \o <<SP, ":", SP>> \o TypeFmt(env, node.v.retty)

\* C5 (as amended): the header line is 'let cfg <name> ', the parameter groups
\* '(o_<arg> : <type>)' in argument order one right after the other with
\* nothing between them, and ' : <return type>'; with no argument the
\* parameter list is '()'.
C5_HeaderGroupsAdjacent ==
    Rendered("Function") =>
        LET args == node.v.args
            groups == [i \in 1..Len(args) |-> ParamGroup(args[i])]
        IN Lines(sink)[1] =
              HeaderLine(IF args = <<>> THEN <<"(", ")">> ELSE Flatten(groups))

\* C5 (as claimed): as above, but consecutive parameter groups are separated
\* by a single blank.
C5_HeaderGroupsSpaced ==
    Rendered("Function") =>
        LET args == node.v.args
            groups == [i \in 1..Len(args) |-> ParamGroup(args[i])]
        IN Lines(sink)[1] =
              HeaderLine(IF args = <<>> THEN <<"(", ")">> ELSE Join(groups, <<SP>>))

\* a function with two arguments was rendered, its two groups adjacent
C5_Witness ==
    /\ Rendered("Function")
    /\ Len(node.v.args) = 2
    /\ \E i \in 1..(Len(Lines(sink)[1]) - 1) :
          Lines(sink)[1][i] = ")" /\ Lines(sink)[1][i + 1] = "("

VarLine(name, ty) ==
    Spaces(env.indent) \o <<"var", SP, name, SP, ":", SP>> \o TypeFmt(env, ty) \o <<";">>

\* C6: after the header and the contract clauses come, in this order: at the
\* base indent 'var _0 : <return type>;', a 'var' line per argument and a 'var'
\* line per local; an opening brace; an '<arg> <- o_<arg>;' line per argument;
\* exactly one 'goto BB0;'; a closing brace; and only then the blocks.
C6_BodyLayout ==
    Rendered("Function") =>
        LET fn == node.v
            L == Lines(sink)
            eq == CHOOSE i \in 1..Len(L) :
                    /\ Strip(L[i]) = <<"=">>
                    /\ \A j \in 1..(i - 1) : Strip(L[j]) # <<"=">>
            inner == Spaces(env.indent + 2)
            expected ==
                <<VarLine("_0", fn.retty)>>
                \o [i \in 1..Len(fn.args) |-> VarLine(fn.args[i][1], fn.args[i][2])]
                \o [i \in 1..Len(fn.vars) |-> VarLine(fn.vars[i][1], fn.vars[i][2])]
                \o <<Spaces(env.indent) \o <<"{">>>>
                \o [i \in 1..Len(fn.args) |->
                      inner \o <<fn.args[i][1], SP, "<-", SP, "o_", fn.args[i][1], ";">>]
                \o <<inner \o <<"goto", SP, "BB", "0", ";">>>>
                \o <<Spaces(env.indent) \o <<"}">>>>
            after == eq + Len(expected)
        IN /\ SubSeq(L, eq + 1, after) = expected
           /\ \A i \in 1..after : ~IsBlockHead(L[i])
           /\ (Len(L) > after) => IsBlockHead(L[after + 1])
           /\ (Len(L) > after) <=> (fn.blocks # <<>>)

\* a function with arguments, contract clauses and blocks was rendered
C6_Witness ==
    /\ Rendered("Function")
    /\ Len(node.v.args) = 2
    /\ node.v.preconds # <<>>
    /\ node.v.blocks # <<>>
    /\ \E i \in 1..Len(Lines(sink)) : Strip(Lines(sink)[i]) = <<"goto", SP, "BB", "0", ";">>

----------------------------------------------------------------------------
(* Switch: C7 *)

\* C7: a switch of k arms renders a 'switch (<discriminant>)' line, then k
\* lines '| <pattern> -> goto <block>' 2 columns deeper, in the order of the
\* arms with none dropped, merged or moved, then one 'end' line.
C7_SwitchArms ==
    (Rendered("Terminator") /\ node.v.kind = "Switch") =>
        LET L == Lines(sink)
            brs == node.v.brs
            k == Len(brs)
        IN /\ Len(L) = k + 2
           /\ L[1] = Spaces(env.indent) \o <<"switch", SP, "(">> \o Alone(node.v.discr) \o <<")">>
           /\ \A i \in 1..k :
                L[i + 1] = Spaces(env.indent + 2) \o <<"|", SP>> \o PatternFmt(brs[i][1])
                           \o <<SP, "->", SP, "goto", SP, "BB", ToString(brs[i][2])>>
           /\ Strip(L[k + 2]) = <<"end">>

\* a switch with twice the same arm was rendered
C7_Witness ==
    /\ Rendered("Terminator")
    /\ node.v.kind = "Switch"
    /\ Len(node.v.brs) = 2
    /\ node.v.brs[1] = node.v.brs[2]
    /\ Len(Lines(sink)) = 4

----------------------------------------------------------------------------
(* Sink failure: C9 *)

\* C9: while a Function is rendered, once a write to the sink has failed no
\* further write is attempted, the render has returned the error, and the sink
\* holds what was written before the failure and what the failing write left.
C9_FailureStopsRender ==
    (node.kind = "Function" /\ failedAt # 0) =>
        /\ result = "Err"
        /\ attempts = failedAt
        /\ pc = failedAt
        /\ IsPrefix(TextOf(SubSeq(ops, 1, pc - 1)), sink)
        /\ IsPrefix(sink, TextOf(SubSeq(ops, 1, pc)))

\* a write failed inside a block of a function, after text had been written
C9_Witness ==
    /\ node.kind = "Function"
    /\ failedAt > 1
    /\ result = "Err"
    /\ ops[pc].d > 0
    /\ \E i \in 1..Len(sink) : sink[i] = "BB"

----------------------------------------------------------------------------
(* FormatEnv::indent: C11 *)

\* the write about to be made
AtWrite == result = "running" /\ pc <= Len(ops) /\ ~ops[pc].panic

\* C11: indent(delta, body) runs body with the caller's scope and the caller's
\* indent plus delta, and leaves the caller's environment as it was: every
\* write is made with the scope the render was started with and the base
\* indent plus 2 per indent closure around it, however deeply nested, so a
\* write after a closure has the same environment as a write before it at
\* the same nesting; and the closure's result is the call's result: a failure
\* inside a closure is the render's error, and Ok is returned only when no
\* write failed.
C11_IndentCopiesEnv ==
    node.kind \in CfgKinds =>
        /\ AtWrite =>
              /\ ops[pc].fe.scope = env.scope
              /\ ops[pc].fe.indent = env.indent + IndentStep * ops[pc].d
              /\ \A j \in 1..(pc - 1) :
                    (~ops[j].panic /\ ops[j].d = ops[pc].d) => ops[j].fe = ops[pc].fe
        /\ (failedAt # 0 /\ ops[pc].d > 0) => result = "Err"
        /\ result = "Ok" => failedAt = 0

\* a write by the caller is due at the base indent after writes made two
\* closures deep
C11_Witness ==
    /\ node.kind = "Function"
    /\ AtWrite
    /\ env.indent > 0
    /\ ops[pc].d = 0
    /\ ops[pc].fe.indent = env.indent
    /\ \E j \in 1..(pc - 1) : ops[j].d = 2 /\ ops[j].fe.indent = env.indent + 4

====
